---- MODULE Spec2Model ----
(***************************************************************************)
(* USDExporter (python/mujoco/usd/exporter.py): one export session.        *)
(*                                                                         *)
(* The exporter mirrors the renderer's scene snapshot (geoms, lights,      *)
(* cameras) into a time-sampled USD stage and writes the stage to a file.  *)
(* The renderer, the MjModel and the USD record classes are collaborators: *)
(* a snapshot is an input of update_scene, and a record is the list of     *)
(* time samples written to it.                                             *)
(* Positions are abstracted to their largest absolute coordinate, in units *)
(* of 1e-9, so that np.allclose(pos, [0, 0, 0]) keeps its tolerance.       *)
(* Python assertions are enabled (no -O).                                  *)
(***************************************************************************)
EXTENDS Integers, Sequences, FiniteSets, TLC

\* ------------------------------------------------------------------ bounds

\* API calls (update_scene, save_scene, add_light, add_camera) per session.
MaxCalls == 3

\* ------------------------------------------------------- program constants

\* stage.SetTimeCodesPerSecond(60.0)
TimeCodesPerSecond == 60

\* reshape(texture_height, texture_width, 3)
ReshapeChannels == 3

\* np.allclose default absolute tolerance 1e-8, in units of 1e-9
ATol == 10

\* USDObject.last_visible_frame before the record was ever visible
InitialLastVisibleFrame == -2

FileTypes == {"usd", "usda", "usdc"}

\* ------------------------------------------------------------ input sets

\* requested image sizes and offscreen buffer sizes
ImageSizes == 1..3
BufferSizes == 1..2

\* one model texture: height, width, channel count
Textures == [height : 1..2, width : 1..2, nchannel : {1, 3, 4}]

TextureLists == {<<>>} \cup {<<t>> : t \in Textures}
                  \cup {<<t, u>> : t \in Textures, u \in Textures}

\* camera_names of the constructor; <<"None">> stands for Python's None
NoCameraNames == <<"None">>
CameraNameLists == {NoCameraNames, <<>>, <<"cam0">>}

\* mj_id2name(model, objtype, objid): the model of the session names geom 0
\* "box" and leaves every other object unnamed
mj_id2name(objtype, objid) ==
  IF objtype = "mjOBJ_GEOM" /\ objid = 0 THEN "box" ELSE ""

\* the geoms a renderer snapshot can hold: a named geom, a site and a camera
\* decoration that are both unnamed and share an id, and a tendon segment
GeomInstances ==
  { [objtype |-> "mjOBJ_GEOM",   objid |-> 0, segid |-> -1, type |-> "mjGEOM_BOX",     matid |-> -1],
    [objtype |-> "mjOBJ_SITE",   objid |-> 0, segid |-> -1, type |-> "mjGEOM_SPHERE",  matid |-> -1],
    [objtype |-> "mjOBJ_CAMERA", objid |-> 0, segid |-> -1, type |-> "mjGEOM_MESH",    matid |-> -1],
    [objtype |-> "mjOBJ_TENDON", objid |-> 0, segid |-> 0,  type |-> "mjGEOM_CAPSULE", matid |-> -1] }

\* the alpha channel of the rgba the snapshot gives an instance: the camera
\* decoration is transparent, the others opaque
AlphaOf(inst) == IF inst.objtype = "mjOBJ_CAMERA" THEN 0 ELSE 1

\* a scene geom: an instance with its alpha
SceneGeoms == { [inst |-> g, alpha |-> AlphaOf(g)] : g \in GeomInstances }

\* snapshots of up to two geoms, an instance at most once
GeomLists == {<<>>} \cup {<<g>> : g \in SceneGeoms}
               \cup {<<p[1], p[2]>> :
                       p \in {q \in SceneGeoms \X SceneGeoms : q[1] # q[2]}}

\* light.pos: exactly the origin, within and outside the allclose tolerance
LightPositions == {0, 10, 11}

\* snapshots of up to two lights, the second one away from the origin
LightLists == {<<>>} \cup {<<p>> : p \in LightPositions}
                \cup {<<p, 11>> : p \in LightPositions}

\* renderer.scene after renderer.update_scene(data, scene_option)
Scenes == {[geoms |-> g, lights |-> <<>>] : g \in GeomLists}
            \cup {[geoms |-> <<>>, lights |-> l] : l \in LightLists}

\* ------------------------------------------------------------------ state

VARIABLES
  pc,             \* "new" before the constructor ran, "ready" after it returned,
                  \* "failed" after it raised
  args,           \* the arguments of the constructor call
  attrs_set,      \* self.model .. self.verbose are assigned
  height,         \* self.height
  width,          \* self.width
  camera_names,   \* self.camera_names
  frame_count,    \* self.frame_count
  updates,        \* self.updates
  geom_names,     \* self.geom_names
  geom_refs,      \* self.geom_refs: derived name -> geometry record
  usd_lights,     \* self.usd_lights
  usd_cameras,    \* self.usd_cameras
  renderer,       \* a mujoco.Renderer was created
  stage,          \* self.stage
  directories,    \* output directories that exist
  texture_files,  \* self.texture_files
  assets,         \* images written to the assets directory
  frames,         \* files written to the frames directory: path -> document
  user_prims,     \* records authored by add_light and add_camera
  last,           \* the last call: operation, arguments, outcome
  ncalls,         \* API calls made in the session
  nupdate_calls,  \* update_scene calls made in the session
  first_lights,   \* the light list of the first update_scene call's snapshot
  present,        \* <<frame, instance>>: the instance was in that call's snapshot
  shown           \* <<frame, instance>>: it was there with alpha > 0

config == <<attrs_set, height, width, camera_names>>
counters == <<frame_count, updates>>
geoms == <<geom_names, geom_refs>>
session == <<usd_lights, usd_cameras, renderer, stage, user_prims>>
disk == <<directories, texture_files, assets, frames>>
history == <<ncalls, nupdate_calls, first_lights, present, shown>>
vars == <<pc, args, config, counters, geoms, session, disk, last, history>>

\* ---------------------------------------------------------------- helpers

\* the function f with f[k] = v added or overwritten
Put(f, k, v) == [x \in DOMAIN f \cup {k} |-> IF x = k THEN v ELSE f[x]]

NoSamples == [x \in {} |-> 0]

\* np.allclose(pos, [0, 0, 0]): every coordinate within atol of 0
AllCloseToOrigin(pos) == pos <= ATol /\ -pos <= ATol

\* ----------------------------------------------------------------- stage

NoStage ==
  [id |-> 0, upAxis |-> "", startTimeCode |-> 0, timeCodesPerSecond |-> 0,
   endAuthored |-> FALSE, endTimeCode |-> 0, defaultPrim |-> ""]

\* _initialize_usd_stage: a fresh in-memory stage; id counts the stages the
\* session created, so that a record knows the stage it was defined in
_initialize_usd_stage(old) ==
  [id |-> old.id + 1, upAxis |-> "z", startTimeCode |-> 0,
   timeCodesPerSecond |-> TimeCodesPerSecond,
   endAuthored |-> FALSE, endTimeCode |-> 0, defaultPrim |-> "/World"]

\* _initialize_output_directories: root/name, frames, assets (makedirs if absent)
_initialize_output_directories(dirs) == dirs \cup {"package", "frames", "assets"}

\* -------------------------------------------------------------- textures

\* the image _load_textures writes for texture_id (0-based) at data_adr
TextureImage(texture_id, tex, data_adr) ==
  [name |-> <<"texture_", texture_id, ".png">>,
   width |-> tex.width, height |-> tex.height,
   data_adr |-> data_adr, flipped |-> TRUE]

\* os.path.join(relpath(assets_directory, frames_directory), texture_file_name)
TexturePath(texture_id) == <<"../assets", <<"texture_", texture_id, ".png">>>>

\* tex_data[data_adr : data_adr + pixels].reshape(h, w, 3) raises ValueError
\* unless the slice holds h * w * 3 values
ReshapeOk(tex, pixels) == pixels = tex.height * tex.width * ReshapeChannels

\* the loop of _load_textures from texture i (1-based position in tex_list)
RECURSIVE LoadTexturesFrom(_, _, _, _, _)
LoadTexturesFrom(i, tex_list, data_adr, files, imgs) ==
  IF i > Len(tex_list)
  THEN [err |-> "none", texture_files |-> files, assets |-> imgs]
  ELSE LET tex == tex_list[i]
           pixels == tex.nchannel * tex.height * tex.width
       IN IF ~ReshapeOk(tex, pixels)
          THEN [err |-> "ValueError: reshape", texture_files |-> files, assets |-> imgs]
          ELSE LoadTexturesFrom(i + 1, tex_list, data_adr + pixels,
                                Append(files, TexturePath(i - 1)),
                                Append(imgs, TextureImage(i - 1, tex, data_adr)))

_load_textures(tex_list) == LoadTexturesFrom(1, tex_list, 0, <<>>, <<>>)

\* ----------------------------------------------------------- constructor

CtorArgs ==
  [offheight : BufferSizes, offwidth : BufferSizes,
   height : ImageSizes, width : ImageSizes,
   textures : TextureLists, camera_names : CameraNameLists]

\* SizeError without the height check
SizeError_widthOnly(a) ==
  IF a.width > a.offwidth THEN "ValueError: image width" ELSE "none"

\* the check of the requested image size against the offscreen buffer
SizeError(a) ==
  IF a.width > a.offwidth THEN "ValueError: image width"
  ELSE IF a.height > a.offheight THEN "ValueError: image height"
  ELSE "none"

NoCall == [op |-> "none", err |-> "none"]

\* the state before the constructor ran
Blank ==
  [pc |-> "new", attrs_set |-> FALSE, height |-> 0, width |-> 0,
   camera_names |-> NoCameraNames, frame_count |-> 0, updates |-> 0,
   geom_names |-> {}, geom_refs |-> NoSamples, usd_lights |-> <<>>,
   usd_cameras |-> <<>>, renderer |-> FALSE, stage |-> NoStage,
   directories |-> {}, texture_files |-> <<>>, assets |-> <<>>,
   err |-> "none"]

\* __init__(model, height, width, ..., camera_names): the exporter it leaves
USDExporter(a) ==
  IF SizeError(a) # "none"
  THEN [Blank EXCEPT !.pc = "failed", !.err = SizeError(a)]
  ELSE LET tex == _load_textures(a.textures)
       IN [pc |-> IF tex.err = "none" THEN "ready" ELSE "failed",
           attrs_set |-> TRUE, height |-> a.height, width |-> a.width,
           camera_names |-> a.camera_names, frame_count |-> 0, updates |-> 0,
           geom_names |-> {}, geom_refs |-> NoSamples, usd_lights |-> <<>>,
           usd_cameras |-> <<>>, renderer |-> TRUE,
           stage |-> _initialize_usd_stage(NoStage),
           directories |-> _initialize_output_directories({}),
           texture_files |-> tex.texture_files, assets |-> tex.assets,
           err |-> tex.err]

\* the variables take the values the constructor call left
Becomes(a, e, call) ==
  /\ pc = e.pc
  /\ args = a
  /\ attrs_set = e.attrs_set
  /\ height = e.height
  /\ width = e.width
  /\ camera_names = e.camera_names
  /\ frame_count = e.frame_count
  /\ updates = e.updates
  /\ geom_names = e.geom_names
  /\ geom_refs = e.geom_refs
  /\ usd_lights = e.usd_lights
  /\ usd_cameras = e.usd_cameras
  /\ renderer = e.renderer
  /\ stage = e.stage
  /\ directories = e.directories
  /\ texture_files = e.texture_files
  /\ assets = e.assets
  /\ frames = NoSamples
  /\ user_prims = {}
  /\ last = call
  /\ ncalls = 0
  /\ nupdate_calls = 0
  /\ first_lights = <<>>
  /\ present = {}
  /\ shown = {}

\* ------------------------------------------------------ geometry records

\* _get_geom_name: the name of the model object (or "None"), its id, and a
\* suffix telling geoms and tendon segments apart; the concatenated string is
\* kept as its parts
_get_geom_name(geom) ==
  LET id_name == mj_id2name(geom.objtype, geom.objid)
      geom_name == IF id_name = "" THEN "None" ELSE id_name
      suffix == IF geom.objtype = "mjOBJ_GEOM" THEN <<"_geom">>
                ELSE IF geom.objtype = "mjOBJ_TENDON"
                     THEN <<"_tendon_segid", geom.segid>>
                     ELSE <<>>
  IN <<geom_name, "_id", geom.objid, suffix>>

\* the record class _load_geom builds for a geom
RecordClass(geom) ==
  IF geom.type = "mjGEOM_MESH" THEN "USDMesh"
  ELSE IF geom.objtype = "mjOBJ_TENDON" THEN "USDTendon"
  ELSE "USDPrimitiveMesh"

\* the texture list of a geom: empty without a material
GeomTextures(geom) == IF geom.matid = -1 THEN <<>> ELSE <<"material">>

\* a new record of mujoco.usd.objects, defined in the stage stage_id; created
\* remembers the update count of the call that made it
USDObject(class, stage_id, obj_name, geom_textures, created) ==
  [class |-> class, stage |-> stage_id, obj_name |-> obj_name,
   geom_textures |-> geom_textures, created |-> created,
   last_visible_frame |-> InitialLastVisibleFrame,
   visibility |-> NoSamples, xform |-> {}, scale |-> {}]

\* USDObject.update_visibility(visible, frame): one visibility time sample
update_visibility(ref, visible, frame) ==
  [ref EXCEPT !.visibility = Put(ref.visibility, frame, visible)]

\* USDObject.update(pos, mat, visible, frame[, scale]): pose and visibility
\* time samples at frame; a visible update moves last_visible_frame
USDObject_update(ref, visible, frame, with_scale) ==
  LET r1 == [ref EXCEPT !.xform = ref.xform \cup {frame},
                        !.scale = IF with_scale THEN ref.scale \cup {frame}
                                  ELSE ref.scale]
      r2 == update_visibility(r1, visible, frame)
  IN IF visible THEN [r2 EXCEPT !.last_visible_frame = frame] ELSE r2

\* the value of the visibility attribute at time t: the sample at t or the
\* nearest earlier one, the first sample before all of them ("inherited",
\* visible, without samples)
VisibleAt(ref, t) ==
  LET times == DOMAIN ref.visibility
      before == {u \in times : u <= t}
  IN IF times = {} THEN TRUE
     ELSE IF before = {}
          THEN ref.visibility[CHOOSE u \in times : \A v \in times : u <= v]
          ELSE ref.visibility[CHOOSE u \in before : \A v \in before : v <= u]

\* the assertion of _load_geom
LoadAllowed(geom_name, names) == geom_name \notin names

\* _load_geom without self.geom_names.add(geom_name)
_load_geom_forgets_name(g, geom, stage_id, frame) ==
  LET geom_name == _get_geom_name(geom)
  IN IF ~LoadAllowed(geom_name, g.geom_names)
     THEN [g EXCEPT !.err = "AssertionError"]
     ELSE [err |-> "none",
           geom_names |-> g.geom_names,
           geom_refs |-> Put(g.geom_refs, geom_name,
                             USDObject(RecordClass(geom), stage_id, geom_name,
                                       GeomTextures(geom), frame))]

\* _load_geom(geom) on the exporter state g = [err, geom_names, geom_refs]
_load_geom(g, geom, stage_id, frame) ==
  LET geom_name == _get_geom_name(geom)
  IN IF ~LoadAllowed(geom_name, g.geom_names)
     THEN [g EXCEPT !.err = "AssertionError"]
     ELSE [err |-> "none",
           geom_names |-> g.geom_names \cup {geom_name},
           geom_refs |-> Put(g.geom_refs, geom_name,
                             USDObject(RecordClass(geom), stage_id, geom_name,
                                       GeomTextures(geom), frame))]

\* the test of _update_geoms that sends a geom to _load_geom
IsNewGeom(geom_name, names) == geom_name \notin names

\* the loop of _update_geoms from scene geom i (1-based)
RECURSIVE UpdateGeomsFrom(_, _, _, _, _)
UpdateGeomsFrom(i, g, scene_geoms, stage_id, frame) ==
  IF i > Len(scene_geoms) \/ g.err # "none" THEN g
  ELSE LET geom == scene_geoms[i].inst
           geom_name == _get_geom_name(geom)
           g1 == IF IsNewGeom(geom_name, g.geom_names)
                 THEN _load_geom(g, geom, stage_id, frame)
                 ELSE g
       IN IF g1.err # "none" THEN g1
          ELSE UpdateGeomsFrom(
                 i + 1,
                 [g1 EXCEPT !.geom_refs[geom_name] =
                    USDObject_update(@, scene_geoms[i].alpha > 0, frame,
                                     geom.objtype = "mjOBJ_TENDON")],
                 scene_geoms, stage_id, frame)

_update_geoms(names, refs, scene_geoms, stage_id, frame) ==
  UpdateGeomsFrom(1, [err |-> "none", geom_names |-> names, geom_refs |-> refs],
                  scene_geoms, stage_id, frame)

\* ------------------------------------------------------ lights and cameras

\* the None slot of usd_lights
NoLight == [class |-> "None", stage |-> 0, obj_name |-> -1, created |-> 0,
            samples |-> NoSamples]

\* light_module.USDSphereLight(stage, obj_name)
USDSphereLight(stage_id, obj_name, created) ==
  [class |-> "USDSphereLight", stage |-> stage_id, obj_name |-> obj_name,
   created |-> created, samples |-> NoSamples]

\* camera_module.USDCamera(stage, obj_name)
USDCamera(stage_id, obj_name, created) ==
  [class |-> "USDCamera", stage |-> stage_id, obj_name |-> obj_name,
   created |-> created, samples |-> NoSamples]

\* USDSphereLight.update(pos, intensity, color, frame): one time sample; index
\* is the snapshot light the values were read from
USDSphereLight_update(light, pos, index, frame) ==
  [light EXCEPT !.samples = Put(light.samples, frame, [pos |-> pos, index |-> index])]

\* USDCamera.update(cam_pos, cam_mat, frame): one time sample
USDCamera_update(camera, frame) ==
  [camera EXCEPT !.samples = Put(camera.samples, frame, [pos |-> "camera pose"])]

\* the test of _load_lights that leaves a None slot
LoadSkipsLight(pos) == AllCloseToOrigin(pos)

\* _load_lights: one slot per snapshot light, appended to usd_lights
RECURSIVE LoadLightsFrom(_, _, _, _, _)
LoadLightsFrom(i, lights, scene_lights, stage_id, frame) ==
  IF i > Len(scene_lights) THEN lights
  ELSE LoadLightsFrom(
         i + 1,
         Append(lights, IF ~LoadSkipsLight(scene_lights[i])
                        THEN USDSphereLight(stage_id, i - 1, frame)
                        ELSE NoLight),
         scene_lights, stage_id, frame)

_load_lights(lights, scene_lights, stage_id, frame) ==
  LoadLightsFrom(1, lights, scene_lights, stage_id, frame)

\* UpdateSkipsLight without the origin test
UpdateSkipsLight_never(pos) == FALSE

\* the first test of _update_lights
UpdateSkipsLight(pos) == AllCloseToOrigin(pos)

\* the second test of _update_lights, for snapshot light i (1-based)
SlotMissing(i, lights) == i > Len(lights) \/ lights[i].class = "None"

\* the slot snapshot light i (1-based) is written to
SlotOf(i) == i

\* _update_lights: a time sample for every snapshot light that is away from
\* the origin and has a record in its slot
RECURSIVE UpdateLightsFrom(_, _, _, _)
UpdateLightsFrom(i, lights, scene_lights, frame) ==
  IF i > Len(scene_lights) THEN lights
  ELSE UpdateLightsFrom(
         i + 1,
         IF UpdateSkipsLight(scene_lights[i]) \/ SlotMissing(SlotOf(i), lights)
         THEN lights
         ELSE [lights EXCEPT ![SlotOf(i)] =
                 USDSphereLight_update(@, scene_lights[i], i - 1, frame)],
         scene_lights, frame)

_update_lights(lights, scene_lights, frame) ==
  UpdateLightsFrom(1, lights, scene_lights, frame)

\* _load_cameras: one record per declared camera name, appended to usd_cameras
_load_cameras(cameras, names, stage_id, frame) ==
  IF names = NoCameraNames THEN cameras
  ELSE cameras \o [i \in 1..Len(names) |-> USDCamera(stage_id, names[i], frame)]

\* _update_cameras: a time sample for every camera record
_update_cameras(cameras, frame) ==
  [i \in 1..Len(cameras) |-> USDCamera_update(cameras[i], frame)]

\* ------------------------------------------------------------ operations

\* two geoms of one snapshot derive the same name
SameNameTwice(scene_geoms) ==
  \E i, j \in 1..Len(scene_geoms) :
    i # j /\ _get_geom_name(scene_geoms[i].inst) = _get_geom_name(scene_geoms[j].inst)

\* TimeSample as the frame counter, which the call has already incremented
TimeSample_frameCount(update_count, count) == count

\* frame=self.updates: the time sample the updates of a call are stamped
\* with, given self.updates and self.frame_count at that point of the call
TimeSample(update_count, count) == update_count

\* IsFirstUpdate as a test that every call passes
IsFirstUpdate_always(n) == n >= 0

\* the test of update_scene that runs the one-time setup
IsFirstUpdate(n) == n = 0

\* update_scene(data, scene_option); scene is the renderer's snapshot for data
update_scene(scene) ==
  /\ pc = "ready"
  /\ ncalls < MaxCalls
  /\ LET frame == TimeSample(updates, frame_count + 1)
         first == IsFirstUpdate(updates)
         stage1 == IF first THEN _initialize_usd_stage(stage) ELSE stage
         lights1 == IF first
                    THEN _load_lights(usd_lights, scene.lights, stage1.id, frame)
                    ELSE usd_lights
         cameras1 == IF first
                     THEN _load_cameras(usd_cameras, camera_names, stage1.id, frame)
                     ELSE usd_cameras
         g == _update_geoms(geom_names, geom_refs, scene.geoms, stage1.id, frame)
         done == g.err = "none"
     IN /\ frame_count' = frame_count + 1
        /\ stage' = stage1
        /\ geom_names' = g.geom_names
        /\ geom_refs' = g.geom_refs
        /\ usd_lights' = IF done THEN _update_lights(lights1, scene.lights, frame)
                         ELSE lights1
        /\ usd_cameras' = IF done THEN _update_cameras(cameras1, frame)
                          ELSE cameras1
        /\ updates' = IF done THEN updates + 1 ELSE updates
        /\ last' = [op |-> "update_scene", err |-> g.err,
                    same_name |-> SameNameTwice(scene.geoms),
                    lights |-> scene.lights]
  /\ ncalls' = ncalls + 1
  /\ nupdate_calls' = nupdate_calls + 1
  /\ first_lights' = IF nupdate_calls = 0 THEN scene.lights ELSE first_lights
  /\ present' = present \cup
       {<<nupdate_calls, scene.geoms[i].inst>> : i \in 1..Len(scene.geoms)}
  /\ shown' = shown \cup
       {<<nupdate_calls, scene.geoms[i].inst>> :
          i \in {j \in 1..Len(scene.geoms) : scene.geoms[j].alpha > 0}}
  /\ UNCHANGED <<pc, args, config, renderer, user_prims, disk>>

\* FileTypeAccepted without the assertion
FileTypeAccepted_any(filetype) == TRUE

\* the assertion of save_scene
FileTypeAccepted(filetype) == filetype \in FileTypes

\* SavedEndTimeCode as the index of the last time sample
SavedEndTimeCode_lastSample(count) == IF count > 0 THEN count - 1 ELSE 0

\* stage.SetEndTimeCode(self.frame_count)
SavedEndTimeCode(count) == count

\* the time of the closing visibility sample of a geometry record
FinalInvisibleFrame(ref) == ref.last_visible_frame + 1

\* frames/frame_<count>.<filetype> under the output directory
FramePath(count, filetype) == <<"frames", <<"frame_", count, ".", filetype>>>>

\* what stage.Export writes: the time range and the records defined in the stage
Document(stg, refs, lights, cameras, prims) ==
  [startTimeCode |-> stg.startTimeCode,
   endTimeCode |-> stg.endTimeCode,
   timeCodesPerSecond |-> stg.timeCodesPerSecond,
   geoms |-> {n \in DOMAIN refs : refs[n].stage = stg.id},
   lights |-> {lights[i].obj_name :
                 i \in {j \in 1..Len(lights) : lights[j].stage = stg.id}},
   cameras |-> {cameras[i].obj_name :
                  i \in {j \in 1..Len(cameras) : cameras[j].stage = stg.id}},
   authored |-> {<<p.class, p.obj_name>> : p \in {q \in prims : q.stage = stg.id}}]

\* save_scene(filetype)
save_scene(filetype) ==
  /\ pc = "ready"
  /\ ncalls < MaxCalls
  /\ ncalls' = ncalls + 1
  /\ IF ~FileTypeAccepted(filetype)
     THEN /\ last' = [op |-> "save_scene", err |-> "AssertionError",
                      filetype |-> filetype]
          /\ UNCHANGED <<stage, geom_refs, frames>>
     ELSE LET stage1 == [stage EXCEPT !.endTimeCode = SavedEndTimeCode(frame_count),
                                      !.endAuthored = TRUE]
              refs1 == [n \in DOMAIN geom_refs |->
                          update_visibility(geom_refs[n], FALSE,
                                            FinalInvisibleFrame(geom_refs[n]))]
          IN /\ stage' = stage1
             /\ geom_refs' = refs1
             /\ frames' = Put(frames, FramePath(frame_count, filetype),
                              Document(stage1, refs1, usd_lights, usd_cameras,
                                       user_prims))
             /\ last' = [op |-> "save_scene", err |-> "none",
                         filetype |-> filetype]
  /\ UNCHANGED <<pc, args, config, counters, geom_names, usd_lights, usd_cameras,
                 renderer, user_prims, directories, texture_files, assets,
                 nupdate_calls, first_lights, present, shown>>

\* the time samples the one-shot update of a user-authored record writes
OneShotSamples(class) == IF class = "USDDomeLight" THEN {} ELSE {0}

\* a record add_light or add_camera defines in the stage stage_id
UserPrim(class, stage_id, obj_name) ==
  [class |-> class, stage |-> stage_id, obj_name |-> obj_name,
   sample_times |-> OneShotSamples(class)]

\* add_light(pos, intensity, obj_name=..., light_type=...)
add_light(obj_name, light_type) ==
  /\ pc = "ready"
  /\ ncalls < MaxCalls
  /\ ncalls' = ncalls + 1
  /\ user_prims' =
       IF light_type = "sphere"
       THEN user_prims \cup {UserPrim("USDSphereLight", stage.id, obj_name)}
       ELSE IF light_type = "dome"
            THEN user_prims \cup {UserPrim("USDDomeLight", stage.id, obj_name)}
            ELSE user_prims
  /\ last' = [op |-> "add_light", err |-> "none", obj_name |-> obj_name,
              light_type |-> light_type]
  /\ UNCHANGED <<pc, args, config, counters, geoms, usd_lights, usd_cameras,
                 renderer, stage, disk, nupdate_calls, first_lights, present,
                 shown>>

\* add_camera(pos, rotation_xyz, obj_name=...)
add_camera(obj_name) ==
  /\ pc = "ready"
  /\ ncalls < MaxCalls
  /\ ncalls' = ncalls + 1
  /\ user_prims' = user_prims \cup {UserPrim("USDCamera", stage.id, obj_name)}
  /\ last' = [op |-> "add_camera", err |-> "none", obj_name |-> obj_name]
  /\ UNCHANGED <<pc, args, config, counters, geoms, usd_lights, usd_cameras,
                 renderer, stage, disk, nupdate_calls, first_lights, present,
                 shown>>

\* __init__ with the pending arguments
Construct ==
  /\ pc = "new"
  /\ LET e == USDExporter(args)
     IN /\ pc' = e.pc
        /\ attrs_set' = e.attrs_set
        /\ height' = e.height
        /\ width' = e.width
        /\ camera_names' = e.camera_names
        /\ frame_count' = e.frame_count
        /\ updates' = e.updates
        /\ geom_names' = e.geom_names
        /\ geom_refs' = e.geom_refs
        /\ usd_lights' = e.usd_lights
        /\ usd_cameras' = e.usd_cameras
        /\ renderer' = e.renderer
        /\ stage' = e.stage
        /\ directories' = e.directories
        /\ texture_files' = e.texture_files
        /\ assets' = e.assets
        /\ last' = [op |-> "__init__", err |-> e.err]
  /\ UNCHANGED <<args, frames, user_prims, history>>

\* ------------------------------------------------------- specifications

\* the arguments of the sessions explored: a model with one RGB texture
SessionArgs ==
  {a \in CtorArgs : /\ a.offheight = 2 /\ a.offwidth = 2
                    /\ a.height = 2 /\ a.width = 1
                    /\ a.textures = <<[height |-> 1, width |-> 2, nchannel |-> 3]>>
                    /\ a.camera_names \in {NoCameraNames, <<"cam0">>}}

SaveFileTypes == FileTypes \cup {"xml"}
LightTypes == {"sphere", "dome", "spot"}
LightNames == {"light_1"}
UserCameraNames == {"camera_1"}

\* a session: the exporter as its constructor returned it
Init ==
  \E a \in SessionArgs :
    Becomes(a, USDExporter(a), [op |-> "__init__", err |-> USDExporter(a).err])

Next ==
  \/ \E scene \in Scenes : update_scene(scene)
  \/ \E filetype \in SaveFileTypes : save_scene(filetype)
  \/ \E n \in LightNames, t \in LightTypes : add_light(n, t)
  \/ \E n \in UserCameraNames : add_camera(n)

Spec == Init /\ [][Next]_vars

\* a constructor call: any arguments, then __init__
InitCtor == \E a \in CtorArgs : Becomes(a, Blank, NoCall)

NextCtor == Construct

SpecCtor == InitCtor /\ [][NextCtor]_vars

\* ------------------------------------------------------------ properties

SizeErrors == {"ValueError: image width", "ValueError: image height"}

\* the last call was a save_scene that returned
Saved == last.op = "save_scene" /\ last.err = "none"

\* C1: the constructor raises the image-size ValueError exactly when the
\* requested width or height exceeds the model's offscreen buffer; when it
\* does, nothing was set, created, made or written; when it does not, the
\* session attributes are set and the renderer exists, and the constructor
\* returns if every texture has three channels.
C1_SizeCheck ==
  pc # "new" =>
    IF args.height <= args.offheight /\ args.width <= args.offwidth
    THEN /\ last.err \notin SizeErrors
         /\ attrs_set /\ renderer
         /\ height = args.height /\ width = args.width
         /\ (\A i \in 1..Len(args.textures) : args.textures[i].nchannel = 3)
              => pc = "ready"
    ELSE /\ pc = "failed"
         /\ last.err \in SizeErrors
         /\ ~attrs_set /\ ~renderer
         /\ stage = NoStage
         /\ directories = {}
         /\ assets = <<>> /\ texture_files = <<>>
         /\ frame_count = 0 /\ updates = 0
         /\ geom_names = {} /\ usd_lights = <<>> /\ usd_cameras = <<>>

\* C1 witness: a call whose height alone exceeds the buffer has raised
C1_Witness ==
  /\ pc = "failed"
  /\ args.height > args.offheight
  /\ args.width <= args.offwidth
  /\ last.err = "ValueError: image height"

\* C2: after N update_scene calls, a save_scene that returns has written
\* frames/frame_N.<filetype>, a document with start time code 0 and end time
\* code N, whether or not save_scene was called before.
C2_TimeRange ==
  Saved =>
    LET path == <<"frames", <<"frame_", nupdate_calls, ".", last.filetype>>>>
    IN /\ path \in DOMAIN frames
       /\ frames[path].startTimeCode = 0
       /\ frames[path].endTimeCode = nupdate_calls
       /\ stage.startTimeCode = 0
       /\ stage.endAuthored /\ stage.endTimeCode = nupdate_calls

\* C2 witness: a second save, after an update that followed the first save
C2_Witness ==
  /\ Saved
  /\ nupdate_calls >= 1
  /\ \E p \in DOMAIN frames : p[2][2] < nupdate_calls

\* the calls (0-based) whose snapshot held an instance, and held it opaque
PresentIn(inst) == {f \in 0..MaxCalls : <<f, inst>> \in present}
ShownIn(inst) == {f \in 0..MaxCalls : <<f, inst>> \in shown}

\* the visibility the saved records give an instance seen in the first k
\* snapshots only: visible at samples 0..k-1, invisible from sample k on
VisibleExactlyFirst(inst, k) ==
  LET ref == geom_refs[_get_geom_name(inst)]
  IN /\ \A f \in 0..(k - 1) : VisibleAt(ref, f)
     /\ \A f \in k..(MaxCalls + 1) : ~VisibleAt(ref, f)

\* C3: after save_scene, an instance that was in the snapshots of the first
\* k calls (opaque) and in none afterwards is visible at time samples
\* 0..k-1 and invisible from time sample k on.
C3_VisibilityOfInstance ==
  Saved =>
    \A inst \in GeomInstances : \A k \in 1..MaxCalls :
      (PresentIn(inst) = 0..(k - 1) /\ ShownIn(inst) = 0..(k - 1))
        => VisibleExactlyFirst(inst, k)

\* no other instance of any snapshot derived the name of inst
NameNotShared(inst) ==
  \A f \in 0..MaxCalls : \A other \in GeomInstances \ {inst} :
    <<f, other>> \in present => _get_geom_name(other) # _get_geom_name(inst)

\* The statement of C3 for the instances whose derived name no other
\* instance of the session shared.
VisibilityWithoutSharedName ==
  Saved =>
    \A inst \in GeomInstances : \A k \in 1..MaxCalls :
      (/\ PresentIn(inst) = 0..(k - 1) /\ ShownIn(inst) = 0..(k - 1)
       /\ NameNotShared(inst))
        => VisibleExactlyFirst(inst, k)

\* C4: an update_scene call whose snapshot holds two geoms of the same
\* derived name ends in an assertion failure.
C4_SameNameAsserts ==
  (last.op = "update_scene" /\ last.same_name) => last.err = "AssertionError"

\* C5: no light record holds a time sample written from a light at the
\* origin, and the slot of a light that was at the origin in the first
\* snapshot holds no record.
C5_OriginLightNeverExported ==
  \A i \in 1..Len(usd_lights) :
    /\ \A f \in DOMAIN usd_lights[i].samples : usd_lights[i].samples[f].pos # 0
    /\ (i <= Len(first_lights) /\ first_lights[i] = 0)
         => (usd_lights[i].class = "None" /\ usd_lights[i].samples = NoSamples)

\* C5 witness: a light with a record moved to the origin in the second call,
\* and its record got no sample for it
C5_Witness ==
  /\ last.op = "update_scene"
  /\ updates = 2
  /\ Len(last.lights) >= 1 /\ last.lights[1] = 0
  /\ Len(usd_lights) >= 1
  /\ usd_lights[1].class = "USDSphereLight"
  /\ DOMAIN usd_lights[1].samples = {0}

\* C6: a save_scene call with a filetype outside usd, usda, usdc fails, and
\* the step leaves the stage (its end time code too), every geometry record,
\* the written files and both counters as they were.
C6_RejectedSaveChangesNothing ==
  [][(ncalls' = ncalls + 1 /\ last'.op = "save_scene"
        /\ last'.filetype \notin {"usd", "usda", "usdc"})
       => /\ last'.err = "AssertionError"
          /\ UNCHANGED <<stage, geom_names, geom_refs, frames, frame_count,
                         updates, usd_lights, usd_cameras, user_prims>>]_vars

\* C6 witness: save_scene("xml") failed in a session that has geometry
\* records and no end time code yet
C6_Witness ==
  /\ last.op = "save_scene" /\ last.err = "AssertionError"
  /\ last.filetype = "xml"
  /\ updates >= 1
  /\ geom_names # {}
  /\ ~stage.endAuthored

\* C7: every record authored by add_light or add_camera, before or after
\* any number of update_scene calls, is in the document a later save_scene
\* writes.
C7_AuthoredRecordIsExported ==
  Saved =>
    \A p \in user_prims :
      <<p.class, p.obj_name>>
        \in frames[FramePath(frame_count, last.filetype)].authored

\* The statement of C7 for the records authored after the first update_scene
\* call, or in a session without one.
AuthoredAfterFirstUpdateIsExported ==
  Saved =>
    \A p \in user_prims :
      p.stage = stage.id
        => <<p.class, p.obj_name>>
             \in frames[FramePath(frame_count, last.filetype)].authored

\* nchannel * height * width of the textures before position i (1-based)
RECURSIVE PixelsBefore(_, _)
PixelsBefore(i, tex_list) ==
  IF i <= 1 THEN 0
  ELSE PixelsBefore(i - 1, tex_list)
         + tex_list[i - 1].nchannel * tex_list[i - 1].height * tex_list[i - 1].width

\* C8: a constructor call that passes the size check extracts every texture
\* of the model: texture_files has ntex entries, entry i is the path of
\* texture_<i>.png, and image i has the declared width and height and starts
\* at the summed sizes of the textures before it.
C8_EveryTextureExtracted ==
  (pc # "new" /\ last.err \notin SizeErrors) =>
    /\ Len(texture_files) = Len(args.textures)
    /\ Len(assets) = Len(args.textures)
    /\ \A i \in 1..Len(args.textures) :
         /\ texture_files[i] = <<"../assets", <<"texture_", i - 1, ".png">>>>
         /\ assets[i].name = <<"texture_", i - 1, ".png">>
         /\ assets[i].width = args.textures[i].width
         /\ assets[i].height = args.textures[i].height
         /\ assets[i].data_adr = PixelsBefore(i, args.textures)

\* the number of declared cameras
DeclaredCameras == IF camera_names = NoCameraNames THEN 0 ELSE Len(camera_names)

\* C9: after the first update_scene call the light list has one slot per
\* light of that call's snapshot (empty for a light at the origin), the
\* camera list one record per declared name, all defined by that call in
\* the stage it created, which is still the session's stage; slot i holds
\* samples of snapshot light i only.
C9_ListsBuiltOnce ==
  updates >= 1 =>
    /\ stage.id = 2
    /\ Len(usd_lights) = Len(first_lights)
    /\ \A i \in 1..Len(usd_lights) :
         IF AllCloseToOrigin(first_lights[i])
         THEN usd_lights[i] = NoLight
         ELSE /\ usd_lights[i].class = "USDSphereLight"
              /\ usd_lights[i].obj_name = i - 1
              /\ usd_lights[i].created = 0
              /\ usd_lights[i].stage = stage.id
              /\ \A f \in DOMAIN usd_lights[i].samples :
                   usd_lights[i].samples[f].index = i - 1
    /\ Len(usd_cameras) = DeclaredCameras
    /\ \A i \in 1..Len(usd_cameras) :
         /\ usd_cameras[i].obj_name = camera_names[i]
         /\ usd_cameras[i].created = 0
         /\ usd_cameras[i].stage = stage.id

\* C9 witness: the third call's snapshot has fewer lights than the first
\* one's two, one of them at the origin, and a camera is declared
C9_Witness ==
  /\ updates = 3
  /\ last.op = "update_scene"
  /\ Len(first_lights) = 2 /\ first_lights[1] = 0
  /\ Len(last.lights) = 1 /\ last.lights[1] # 0
  /\ Len(usd_lights) = 2
  /\ Len(usd_cameras) = 1

\* the derived names of the instances seen in the snapshots so far
NamesSeen == {_get_geom_name(pi[2]) : pi \in present}

\* the first call (0-based) whose snapshot held an instance named n
FirstSeen(n) ==
  CHOOSE f \in 0..MaxCalls :
    /\ \E inst \in GeomInstances : <<f, inst>> \in present /\ _get_geom_name(inst) = n
    /\ \A pi \in present : _get_geom_name(pi[2]) = n => f <= pi[1]

\* C10: the known names are the keys of the record map and are the names
\* derived so far; the record of a name is the one made by the call that
\* first saw the name, in the session's stage; a saved document holds them
\* all.
C10_GeomRecordsPersist ==
  /\ geom_names = DOMAIN geom_refs
  /\ geom_names = NamesSeen
  /\ \A n \in geom_names :
       /\ geom_refs[n].obj_name = n
       /\ geom_refs[n].created = FirstSeen(n)
       /\ geom_refs[n].stage = stage.id
  /\ Saved => frames[FramePath(frame_count, last.filetype)].geoms = geom_names

\* C10 witness: a saved session in which the second call reused the record
\* of the first call and made a new one
C10_Witness ==
  /\ Saved
  /\ updates = 2
  /\ \E n, m \in geom_names :
       /\ geom_refs[n].created = 0 /\ 1 \in geom_refs[n].xform
       /\ geom_refs[m].created = 1

\* the calls (0-based) whose snapshot held an instance named n
CallsNaming(n) ==
  {f \in 0..MaxCalls :
     \E inst \in GeomInstances : <<f, inst>> \in present /\ _get_geom_name(inst) = n}

\* the calls (0-based) whose snapshot held a tendon segment named n
CallsNamingTendon(n) ==
  {f \in 0..MaxCalls :
     \E inst \in GeomInstances :
       /\ <<f, inst>> \in present
       /\ _get_geom_name(inst) = n
       /\ inst.objtype = "mjOBJ_TENDON"}

====
